---- MODULE Spec2Model ----
(***************************************************************************)
(* Natours tour-booking API: tours, reviews and the rating recomputation.  *)
(* Documents are records; a missing field (JavaScript undefined) is the    *)
(* value Absent; a rating average is an exact fraction in lowest terms.    *)
(***************************************************************************)
EXTENDS Integers, Sequences, FiniteSets, TLC

(* ---------------------------- bounds ---------------------------------- *)
MaxTours == 2
MaxReviews == 2
MaxUsers == 2

TourIds == 1..MaxTours
ReviewIds == 1..MaxReviews
UserIds == 1..MaxUsers
MaxResets == 1
MaxTokens == 2
MaxTicks == 2
MaxPasswords == 2
ResetTokens == 1..MaxResets
MaxPrice == 2
Prices == 1..MaxPrice
TourNames == 1..MaxTours

(* ---------------------------- constants ------------------------------- *)
Absent == 0
MIN_RATING == 1
MAX_RATING == 5
DEFAULT_RATINGS_QUANTITY == 0

(* ---------------------------- fractions ------------------------------- *)
RECURSIVE GCD(_, _)
GCD(a, b) == IF b = 0 THEN a ELSE GCD(b, a % b)

Frac(n, d) == [num |-> n \div GCD(n, d), den |-> d \div GCD(n, d)]

FracLeq(x, y) == x.num * y.den <= y.num * x.den

DEFAULT_RATINGS_AVERAGE == Frac(9, 2)

(* ---------------------------- state ----------------------------------- *)
VARIABLES tours, nextTour, reviews, nextReview, pending, res, req,
          users, nextUser, issued, clock, ticks, mailbox, hist, NODE_ENV, limiter

tourVars == <<tours, nextTour>>

reviewVars == <<reviews, nextReview, pending>>

userVars == <<users, nextUser, issued, clock, ticks, mailbox, hist, NODE_ENV, limiter>>

vars == <<tours, nextTour, reviews, nextReview, pending, res, req,
          users, nextUser, issued, clock, ticks, mailbox, hist, NODE_ENV, limiter>>

None == <<>>

Some(v) == <<v>>

Given(field) == Len(field) > 0

(* slugify(name): the URL form of a name, a value distinct from the name *)
Slugify(name) == [slugOf |-> name]

NoTour == [exists |-> FALSE, ratingsAverage |-> DEFAULT_RATINGS_AVERAGE,
           ratingsQuantity |-> DEFAULT_RATINGS_QUANTITY,
           name |-> Absent, slug |-> Slugify(Absent), price |-> Absent,
           priceDiscount |-> None]

NewTour == [NoTour EXCEPT !.exists = TRUE]

(* a stored or transmitted password: the bcrypt digest of a plaintext is a  *)
(* different value from the plaintext itself                               *)
NoPassword == [kind |-> "none", of |-> 0]

Plain(p) == [kind |-> "plain", of |-> p]

(* the response of the latest request: the token and the user document   *)
(* of its body (user: the document's id, password: its password field),   *)
(* or the documents of a list; seq alternates with every response. A      *)
(* status of 400 or more given by a handler is an AppError, which is      *)
(* operational and sent with its own status and message; thrown names the *)
(* error passed to the global error handler                               *)
(* the status member of the body: 'success', or for an error 'fail' when  *)
(* the status code starts with 4 and 'error' otherwise                     *)
Jsend(status) ==
  IF status < 400 THEN "success" ELSE IF status < 500 THEN "fail" ELSE "error"

Response(route, status) ==
  [route |-> route, status |-> status, password |-> NoPassword, seq |-> 1 - res.seq,
   token |-> None, user |-> Absent, listed |-> {}, data |-> <<>>, results |-> None,
   jsend |-> Jsend(status),
   thrown |-> IF status >= 400 THEN "AppError" ELSE "", operational |-> status >= 400]

Envs == {"development", "production"}

LibraryErrors ==
  {"CastError", "E11000", "ValidationError", "JsonWebTokenError", "TokenExpiredError"}

(* production: handleCastErrorDB, handleDuplicateFieldsDB,                *)
(* handleValidationErrorDB answer 400, handleJWTError and                 *)
(* handleJWTExpiredError answer 401                                       *)
TranslatedAll400(name) == 400

Translated(name) == IF name \in {"JsonWebTokenError", "TokenExpiredError"} THEN 401 ELSE 400

UntranslatedStatus(name) == 500

(* the status the global error handler sends for an error of a library:   *)
(* err.statusCode || 500 as it is in development, the translation in      *)
(* production                                                             *)
ErrorStatus(name) ==
  IF NODE_ENV = "production" THEN Translated(name) ELSE UntranslatedStatus(name)

(* the global error handler for an error thrown by mongoose or jwt:       *)
(* production translates it into an operational AppError, development     *)
(* sends the error as it is                                               *)
globalErrorHandler(route, name) ==
  [Response(route, ErrorStatus(name)) EXCEPT
     !.thrown = name, !.operational = (NODE_ENV = "production")]

(* ---------------------------- users ----------------------------------- *)
Hash(p) == [kind |-> "bcrypt", of |-> p]

Sha256(token) == [sha256 |-> token]

NoResetToken == Sha256(Absent)

Time(sec, ms) == [sec |-> sec, ms |-> ms]

NoUser == [exists |-> FALSE, active |-> TRUE, role |-> "user", email |-> Absent,
           name |-> Absent,
           password |-> NoPassword, passwordChangedAt |-> None,
           passwordResetToken |-> NoResetToken, passwordResetExpires |-> None]

StoredUser(role, email, password) ==
  [NoUser EXCEPT !.exists = TRUE, !.role = role, !.email = email,
                 !.name = email, !.password = Hash(password)]

(* history: when each user last changed the password through              *)
(* updateMyPassword or resetPassword, and how often each reset token was   *)
(* accepted                                                                *)
NoHistory == [passwordChange |-> [u \in UserIds |-> None],
              resetUses |-> [n \in ResetTokens |-> 0]]

(* what the middleware chain did with the latest request *)
NoRequest == [header |-> None, param |-> Absent, passed |-> <<>>, user |-> Absent,
              ran |-> FALSE, email |-> Absent]

(* ---------------------------- time ------------------------------------ *)
MS_PER_SECOND == 1000

TimeLess(a, b) == a.sec < b.sec \/ (a.sec = b.sec /\ a.ms < b.ms)

TimeLeq(a, b) == ~TimeLess(b, a)

AddMs(t, k) == Time(t.sec + ((t.ms + k) \div MS_PER_SECOND), (t.ms + k) % MS_PER_SECOND)

Seconds(t) == t.sec

JWT_EXPIRES_IN == 90 * 24 * 60 * 60

PASSWORD_RESET_TTL == 10 * 60 * 1000

PASSWORD_CHANGED_BACKDATE == 1000

Tick(d) ==
  /\ ticks < MaxTicks
  /\ ticks' = ticks + 1
  /\ clock' = AddMs(Time(clock.sec + d.sec, clock.ms), d.ms)
  /\ UNCHANGED <<tourVars, reviewVars, res, req, users, nextUser, issued, mailbox, hist,
                 NODE_ENV, limiter>>

(* ---------------------------- rate limiter ---------------------------- *)
MaxCallers == 2
Callers == 1..MaxCallers

RATE_LIMIT_MAX == 100

RATE_LIMIT_WINDOW_MS == 60 * 60 * 1000

TOO_MANY_REQUESTS == 429

(* the limiter's store: for each caller IP the hits counted in its current  *)
(* window and the time that window ends; `served` is a history field, the    *)
(* requests of that window that went on to a route handler                   *)
NoHits == [ip \in Callers |-> [totalHits |-> 0, resetTime |-> Time(0, 0), served |-> 0]]

(* a caller's window opens with its first counted request and ends           *)
(* RATE_LIMIT_WINDOW_MS later; a request at or after the end opens the next  *)
WindowOver(client, now) == TimeLeq(client.resetTime, now)

increment(client, now) ==
  LET current == IF WindowOver(client, now)
                 THEN [totalHits |-> 0, resetTime |-> AddMs(now, RATE_LIMIT_WINDOW_MS),
                       served |-> 0]
                 ELSE client
  IN [current EXCEPT !.totalHits = @ + 1]

OverLimitNever(client) == FALSE

OverLimit(client) == client.totalHits > RATE_LIMIT_MAX

(* ---------------------------- user model ------------------------------- *)
Roles == {"user", "guide", "lead-guide", "admin"}

ReviewAuthors == {"user"}

correctPasswordAny(candidate, stored) == TRUE

correctPassword(candidate, stored) == stored = Hash(candidate)

changedPasswordAfterIgnored(user, JWTTimestamp) == FALSE

changedPasswordAfter(user, JWTTimestamp) ==
  IF Given(user.passwordChangedAt)
  THEN JWTTimestamp < Seconds(user.passwordChangedAt[1])
  ELSE FALSE

passwordConfirmAny(body) == TRUE

(* the passwordConfirm validator, run on save: el === this.password *)
passwordConfirmValid(body) == body.passwordConfirm = body.password

PreSaveKeepPassword(user, password, isNew) == user

PreSaveStampNow(user, password, isNew) ==
  [user EXCEPT !.password = Hash(password), !.passwordChangedAt = Some(clock)]

(* pre('save'): hash a modified password, and stamp passwordChangedAt when *)
(* the document is not new                                                 *)
PreSavePassword(user, password, isNew) ==
  [user EXCEPT !.password = Hash(password),
               !.passwordChangedAt =
                  IF isNew THEN @ ELSE Some(AddMs(clock, 0 - PASSWORD_CHANGED_BACKDATE))]

(* pre(/^find/): every find-type query only sees users that are not inactive *)
VisibleWhenStored(id) == id \in UserIds /\ users[id].exists

Visible(id) == id \in UserIds /\ users[id].exists /\ users[id].active

FindByEmailStored(email) == {u \in UserIds : users[u].exists /\ users[u].email = email}

FindByEmail(email) == {u \in UserIds : Visible(u) /\ users[u].email = email}

EmailTaken(email, except) ==
  \E u \in UserIds \ {except} : users[u].exists /\ users[u].email = email

(* a document as a query returns it: password has select:false *)
Selected(user) == [user EXCEPT !.password = NoPassword]

(* ---------------------------- tokens ----------------------------------- *)
signToken(id) == [id |-> id, iat |-> Seconds(clock)]

Forged == [id |-> Absent, iat |-> 0]

Signed == {k.token : k \in issued}

TokenNeverExpires(token) == FALSE

TokenExpired(token) == Seconds(clock) >= token.iat + JWT_EXPIRES_IN

jwtVerify(token) == token \in Signed /\ ~TokenExpired(token)

Keep(id) ==
  IF Cardinality(issued) < MaxTokens
  THEN issued \cup {[token |-> signToken(id), at |-> clock]}
  ELSE issued

(* createSendToken: sign a token, blank the password of the document, respond *)
createSendToken(id, doc, statusCode, route) ==
  /\ issued' = Keep(id)
  /\ res' = [Response(route, statusCode) EXCEPT
               !.token = Some(signToken(id)),
               !.user = id,
               !.password = [doc EXCEPT !.password = NoPassword].password]

(* ---------------------------- middleware ------------------------------- *)
Stages == <<"TokenExtracted", "TokenVerified", "UserLoaded", "PasswordFresh">>

Stop(n, statusCode) ==
  [passed |-> SubSeq(Stages, 1, n), status |-> statusCode, user |-> Absent, thrown |-> ""]

(* jwt.verify throws JsonWebTokenError for a token it did not sign and    *)
(* TokenExpiredError for one past its expiry                              *)
jwtError(token) == IF token \in Signed THEN "TokenExpiredError" ELSE "JsonWebTokenError"

protect(header) ==
  IF ~Given(header) THEN Stop(0, 401)
  ELSE IF ~jwtVerify(header[1])
       THEN [Stop(1, ErrorStatus(jwtError(header[1]))) EXCEPT !.thrown = jwtError(header[1])]
  ELSE IF ~Visible(header[1].id) THEN Stop(2, 401)
  ELSE IF changedPasswordAfter(users[header[1].id], header[1].iat) THEN Stop(3, 401)
  ELSE [passed |-> Stages, status |-> 0, user |-> header[1].id, thrown |-> ""]

restrictToAnyRole(roles, role) == TRUE

restrictTo(roles, role) == role \in roles

GuardProtectOnly(header, roles) == protect(header)

(* protect, then restrictTo when the route names roles (an empty set: none) *)
Guard(header, roles) ==
  LET p == protect(header) IN
  IF p.status # 0 THEN p
  ELSE IF roles # {} /\ ~restrictTo(roles, users[p.user].role)
       THEN [p EXCEPT !.status = 403]
       ELSE p

Admitted(header, param, g) ==
  [header |-> header, param |-> param, passed |-> g.passed, user |-> g.user, ran |-> TRUE,
   email |-> Absent]

Refuse(header, param, g, route) ==
  /\ req' = [Admitted(header, param, g) EXCEPT !.ran = FALSE]
  /\ res' = IF g.thrown = "" THEN Response(route, g.status)
            ELSE globalErrorHandler(route, g.thrown)
  /\ UNCHANGED <<tourVars, reviewVars, userVars>>

Headers == {None, Some(Forged)} \cup {Some(t) : t \in Signed}

(* ---------------------- auth controller -------------------------------- *)
signup(body) ==
  /\ nextUser <= MaxUsers
  /\ IF ~passwordConfirmValid(body)
     THEN /\ res' = globalErrorHandler("signup", "ValidationError")
          /\ UNCHANGED <<users, nextUser, issued>>
     ELSE IF EmailTaken(body.email, Absent)
     THEN /\ res' = globalErrorHandler("signup", "E11000")
          /\ UNCHANGED <<users, nextUser, issued>>
     ELSE /\ users' = [users EXCEPT ![nextUser] =
                         PreSavePassword([NoUser EXCEPT !.exists = TRUE,
                                                        !.email = body.email,
                                                        !.name = body.email],
                                         body.password, TRUE)]
          /\ nextUser' = nextUser + 1
          /\ createSendToken(nextUser, users'[nextUser], 201, "signup")
  /\ UNCHANGED <<clock, ticks, NODE_ENV, limiter, mailbox, hist, tourVars, reviewVars>>

login(body) ==
  /\ IF body.email = Absent \/ body.password = Absent
     THEN /\ res' = Response("login", 400)
          /\ UNCHANGED issued
     ELSE IF \A u \in FindByEmail(body.email) :
                ~correctPassword(body.password, users[u].password)
     THEN /\ res' = Response("login", 401)
          /\ UNCHANGED issued
     ELSE LET u == CHOOSE x \in FindByEmail(body.email) : TRUE IN
          createSendToken(u, users[u], 200, "login")
  /\ UNCHANGED <<users, nextUser, clock, ticks, NODE_ENV, limiter, mailbox, hist, tourVars, reviewVars>>

PasswordChanged(id) == [hist EXCEPT !.passwordChange[id] = Some(clock)]

updatePassword(id, body) ==
  /\ IF ~correctPassword(body.passwordCurrent, users[id].password)
     THEN /\ res' = Response("updateMyPassword", 401)
          /\ UNCHANGED <<users, issued, hist>>
     ELSE IF ~passwordConfirmValid(body)
     THEN /\ res' = globalErrorHandler("updateMyPassword", "ValidationError")
          /\ UNCHANGED <<users, issued, hist>>
     ELSE /\ users' = [users EXCEPT ![id] = PreSavePassword(@, body.password, FALSE)]
          /\ hist' = PasswordChanged(id)
          /\ createSendToken(id, users'[id], 200, "updateMyPassword")
  /\ UNCHANGED <<nextUser, clock, ticks, NODE_ENV, limiter, mailbox, tourVars, reviewVars>>

Minted == {m.token : m \in mailbox}

createPasswordResetToken(user, n) ==
  [user EXCEPT !.passwordResetToken = Sha256(n),
               !.passwordResetExpires = Some(AddMs(clock, PASSWORD_RESET_TTL))]

KeepResetToken(user) == user

ClearResetToken(user) ==
  [user EXCEPT !.passwordResetToken = NoResetToken, !.passwordResetExpires = None]

forgotPassword(body, n, delivered) ==
  /\ n \notin Minted
  /\ IF FindByEmail(body.email) = {}
     THEN /\ res' = Response("forgotPassword", 404)
          /\ UNCHANGED <<users, mailbox>>
     ELSE LET u == CHOOSE x \in FindByEmail(body.email) : TRUE IN
          IF delivered
          THEN /\ users' = [users EXCEPT ![u] = createPasswordResetToken(@, n)]
               /\ mailbox' = mailbox \cup {[user |-> u, token |-> n, at |-> clock]}
               /\ res' = Response("forgotPassword", 200)
          ELSE /\ users' = [users EXCEPT ![u] = ClearResetToken(@)]
               /\ res' = Response("forgotPassword", 500)
               /\ UNCHANGED mailbox
  /\ UNCHANGED <<nextUser, issued, clock, ticks, NODE_ENV, limiter, hist, tourVars, reviewVars>>

FindByResetToken(n) ==
  {u \in UserIds : /\ Visible(u)
                   /\ users[u].passwordResetToken = Sha256(n)
                   /\ Given(users[u].passwordResetExpires)
                   /\ TimeLess(clock, users[u].passwordResetExpires[1])}

resetPassword(n, body) ==
  /\ IF FindByResetToken(n) = {}
     THEN /\ res' = Response("resetPassword", 400)
          /\ UNCHANGED <<users, issued, hist>>
     ELSE IF ~passwordConfirmValid(body)
     THEN /\ res' = globalErrorHandler("resetPassword", "ValidationError")
          /\ UNCHANGED <<users, issued, hist>>
     ELSE LET u == CHOOSE x \in FindByResetToken(n) : TRUE IN
          /\ users' = [users EXCEPT ![u] =
                         PreSavePassword(ClearResetToken(@), body.password, FALSE)]
          /\ hist' = [PasswordChanged(u) EXCEPT !.resetUses[n] = @ + 1]
          /\ createSendToken(u, users'[u], 200, "resetPassword")
  /\ UNCHANGED <<nextUser, clock, ticks, NODE_ENV, limiter, mailbox, tourVars, reviewVars>>

(* ---------------------- APIFeatures and list responses ------------------ *)
(* a query-string value: not sent, sent as digits, or sent as other text *)
NotSent == [sent |-> FALSE, numeric |-> FALSE, n |-> 0]

Text == [sent |-> TRUE, numeric |-> FALSE, n |-> 0]

Digits(n) == [sent |-> TRUE, numeric |-> TRUE, n |-> n]

NoQueryString == [page |-> NotSent, limit |-> NotSent]

(* value * 1: the number, or NaN (None) for undefined and for other text *)
TimesOne(value) == IF value.sent /\ value.numeric THEN Some(value.n) ELSE None

(* number || default: NaN and 0 are falsy *)
OrDefault(number, default) ==
  IF Given(number) /\ number[1] # 0 THEN number[1] ELSE default

DEFAULT_PAGE == 1

DEFAULT_LIMIT == 100

(* the documents a query finds, in the order they were stored *)
RECURSIVE Ordered(_)
Ordered(ids) ==
  IF ids = {} THEN <<>>
  ELSE LET least == CHOOSE i \in ids : \A j \in ids : i <= j
       IN <<least>> \o Ordered(ids \ {least})

Least(a, b) == IF a <= b THEN a ELSE b

paginationSkipsPages(docs, queryString) ==
  LET page == OrDefault(TimesOne(queryString.page), DEFAULT_PAGE)
      limit == OrDefault(TimesOne(queryString.limit), DEFAULT_LIMIT)
  IN SubSeq(docs, page * limit + 1, Least(Len(docs), page * limit + limit))

(* query.skip((page - 1) * limit).limit(limit) *)
pagination(docs, queryString) ==
  LET page == OrDefault(TimesOne(queryString.page), DEFAULT_PAGE)
      limit == OrDefault(TimesOne(queryString.limit), DEFAULT_LIMIT)
      skipValue == (page - 1) * limit
  IN SubSeq(docs, skipValue + 1, Least(Len(docs), skipValue + limit))

SendListCountsAll(route, docs, queryString) ==
  [Response(route, 200) EXCEPT
     !.data = pagination(docs, queryString),
     !.listed = {pagination(docs, queryString)[i] :
                   i \in 1..Len(pagination(docs, queryString))},
     !.results = Some(Len(docs))]

(* results: doc.length, data: doc *)
SendList(route, docs, queryString) ==
  [Response(route, 200) EXCEPT
     !.data = pagination(docs, queryString),
     !.listed = {pagination(docs, queryString)[i] :
                   i \in 1..Len(pagination(docs, queryString))},
     !.results = Some(Len(pagination(docs, queryString)))]

(* ---------------------- user controller -------------------------------- *)
(* req.body: a key the client did not send reads as undefined *)
UntypedKeys == {"role", "active"}

Sent(body, f) == f \in DOMAIN body /\ (f \in UntypedKeys \/ body[f] # Absent)

allowedFields == {"name", "email"}

filterNothing(body, allowed) == body

filterObj(body, allowed) == [f \in (DOMAIN body) \cap allowed |-> body[f]]

(* findByIdAndUpdate: sets the paths of the update, runs no save hook *)
findByIdAndUpdate(user, update) ==
  [f \in DOMAIN user |-> IF Sent(update, f) THEN update[f] ELSE user[f]]

updateMe(id, body) ==
  /\ IF Sent(body, "password") \/ Sent(body, "passwordConfirm")
     THEN /\ res' = Response("updateMe", 400)
          /\ UNCHANGED users
     ELSE IF Sent(body, "email") /\ EmailTaken(body.email, id)
     THEN /\ res' = globalErrorHandler("updateMe", "E11000")
          /\ UNCHANGED users
     ELSE /\ users' = [users EXCEPT ![id] =
                         findByIdAndUpdate(@, filterObj(body, allowedFields))]
          /\ res' = [Response("updateMe", 200) EXCEPT !.user = id,
                       !.password = Selected(users'[id]).password]
  /\ UNCHANGED <<nextUser, issued, clock, ticks, NODE_ENV, limiter, mailbox, hist, tourVars, reviewVars>>

deleteMe(id) ==
  /\ users' = [users EXCEPT ![id].active = FALSE]
  /\ res' = Response("deleteMe", 204)
  /\ UNCHANGED <<nextUser, issued, clock, ticks, NODE_ENV, limiter, mailbox, hist, tourVars, reviewVars>>

(* an id that is no ObjectId: findById raises CastError *)
MalformedId == 0 - 1

getUser(id, route) ==
  /\ res' = IF id = MalformedId THEN globalErrorHandler(route, "CastError")
            ELSE IF Visible(id)
            THEN [Response(route, 200) EXCEPT !.user = id,
                                              !.password = Selected(users[id]).password]
            ELSE Response(route, 404)
  /\ UNCHANGED <<tourVars, reviewVars, userVars>>

(* getAll(User): User.find() through the pre(/^find/) filter *)
getAllUsers ==
  /\ res' = SendList("getAllUsers", Ordered({u \in UserIds : Visible(u)}), NoQueryString)
  /\ UNCHANGED <<tourVars, reviewVars, userVars>>

ApplyUserBody(user, body) ==
  [user EXCEPT !.password = IF body.password = Absent THEN @ ELSE Plain(body.password),
               !.role = IF body.role = "" THEN @ ELSE body.role,
               !.active = IF "active" \in DOMAIN body THEN body.active ELSE @]

(* updateOne(User) on the stored users us: the users it leaves and its status *)
updateOneUser(us, id, body) ==
  IF ~(id \in UserIds /\ us[id].exists /\ us[id].active)
  THEN [users |-> us, status |-> 404]
  ELSE [users |-> [us EXCEPT ![id] = ApplyUserBody(@, body)], status |-> 200]

updateUser(id, body) ==
  /\ users' = updateOneUser(users, id, body).users
  /\ res' = IF updateOneUser(users, id, body).status = 404
            THEN Response("updateUser", 404)
            ELSE [Response("updateUser", 200) EXCEPT !.user = id,
                    !.password = Selected(users'[id]).password]
  /\ UNCHANGED <<nextUser, issued, clock, ticks, NODE_ENV, limiter, mailbox, hist, tourVars, reviewVars>>

deleteUser(id) ==
  /\ IF ~Visible(id)
     THEN /\ res' = Response("deleteUser", 404)
          /\ UNCHANGED users
     ELSE /\ users' = [users EXCEPT ![id] = NoUser]
          /\ res' = Response("deleteUser", 204)
  /\ UNCHANGED <<nextUser, issued, clock, ticks, NODE_ENV, limiter, mailbox, hist, tourVars, reviewVars>>

createUserStores(body) == signup(body)

(* createUser: a placeholder that answers 500 itself *)
createUser(body) ==
  /\ res' = [Response("createUser", 500) EXCEPT !.thrown = "", !.operational = FALSE,
                                                !.jsend = "error"]
  /\ UNCHANGED <<tourVars, reviewVars, userVars>>

(* ---------------------- review statics and hooks ----------------------- *)
RECURSIVE SumRatings(_)
SumRatings(rs) ==
  IF rs = {} THEN 0
  ELSE LET r == CHOOSE x \in rs : TRUE IN r.rating + SumRatings(rs \ {r})

ReviewsOf(t) == {r \in reviews : r.tour = t}

Aggregate(t) ==
  IF ReviewsOf(t) = {} THEN <<>>
  ELSE << [nRating |-> Cardinality(ReviewsOf(t)),
           avgRating |-> Frac(SumRatings(ReviewsOf(t)), Cardinality(ReviewsOf(t)))] >>

(* a calcAverageRatings call in progress; alone records that no other call *)
(* for the same tour has been in progress at any time during this one      *)
Recompute(t) == [tour |-> t, pc |-> "aggregate", stats |-> <<>>,
                 alone |-> \A p \in pending : p.tour # t]

Schedule(t) ==
  {IF p.tour = t THEN [p EXCEPT !.alone = FALSE] ELSE p : p \in pending} \cup {Recompute(t)}

CalcAggregate(p) ==
  /\ p \in pending
  /\ p.pc = "aggregate"
  /\ pending' = (pending \ {p}) \cup {[p EXCEPT !.pc = "update", !.stats = Aggregate(p.tour)]}
  /\ UNCHANGED <<tours, nextTour, reviews, nextReview, res, req, userVars>>

StatsUsable(stats) == Len(stats) > 0

CalcUpdate(p) ==
  /\ p \in pending
  /\ p.pc = "update"
  /\ pending' = pending \ {p}
  /\ tours' = IF StatsUsable(p.stats) /\ p.tour \in TourIds /\ tours[p.tour].exists
              THEN [tours EXCEPT ![p.tour].ratingsQuantity = p.stats[1].nRating,
                                 ![p.tour].ratingsAverage = p.stats[1].avgRating]
              ELSE tours
  /\ UNCHANGED <<nextTour, reviews, nextReview, res, req, userVars>>

(* ---------------------- review controller ------------------------------ *)
(* prefers the body's tourId to the tourId of the nested route *)
setTourUserIdsBodyFirst(userId, paramTourId, body) ==
  [body EXCEPT !.tour = IF body.tour # Absent THEN body.tour
                        ELSE IF body.tourId # Absent THEN body.tourId ELSE paramTourId,
               !.user = IF body.user # Absent THEN body.user ELSE userId,
               !.tourId = Absent, !.userId = Absent]

setTourUserIds(userId, paramTourId, body) ==
  LET b1 == IF body.tour = Absent THEN [body EXCEPT !.tour = paramTourId] ELSE body
      b2 == IF b1.tour = Absent /\ b1.tourId # Absent
            THEN [b1 EXCEPT !.tour = b1.tourId] ELSE b1
      b3 == IF b2.user = Absent THEN [b2 EXCEPT !.user = userId] ELSE b2
      b4 == IF b3.user = Absent /\ b3.userId # Absent
            THEN [b3 EXCEPT !.user = b3.userId] ELSE b3
  IN [b4 EXCEPT !.tourId = Absent, !.userId = Absent]

RatingValid(rating) == rating >= MIN_RATING /\ rating <= MAX_RATING

ReviewValid(b) == b.tour # Absent /\ b.user # Absent /\ RatingValid(b.rating)

createReview(userId, paramTourId, body) ==
  LET b == setTourUserIds(userId, paramTourId, body) IN
  /\ nextReview <= MaxReviews
  /\ IF ReviewValid(b)
     THEN /\ reviews' = reviews \cup {[id |-> nextReview, tour |-> b.tour,
                                        user |-> b.user, rating |-> b.rating]}
          /\ nextReview' = nextReview + 1
          /\ pending' = Schedule(b.tour)
          /\ res' = Response("createReview", 201)
     ELSE /\ res' = globalErrorHandler("createReview", "ValidationError")
          /\ UNCHANGED <<reviews, nextReview, pending>>
  /\ UNCHANGED <<tours, nextTour, userVars>>

ReviewByIdNone(id) == {}

ReviewById(id) == {r \in reviews : r.id = id}

ApplyReviewBody(r, body) ==
  [r EXCEPT !.rating = IF body.rating = Absent THEN @ ELSE body.rating,
            !.tour = IF body.tour = Absent THEN @ ELSE body.tour]

(* the post(/^findOneAnd/) hook recomputes one tour for the review that was *)
(* written: the tour the review belonged to when the query found it, or   *)
(* the tour it belongs to after the write                                 *)
HookTours(r, body) == {r.tour, ApplyReviewBody(r, body).tour}

updateReview(id, body) ==
  /\ IF ReviewById(id) = {}
     THEN /\ res' = Response("updateReview", 404)
          /\ UNCHANGED <<reviews, pending>>
     ELSE LET r == CHOOSE x \in ReviewById(id) : TRUE IN
          IF body.rating # Absent /\ ~RatingValid(body.rating)
          THEN /\ res' = globalErrorHandler("updateReview", "ValidationError")
               /\ UNCHANGED <<reviews, pending>>
          ELSE /\ reviews' = (reviews \ {r}) \cup {ApplyReviewBody(r, body)}
               /\ \E t \in HookTours(r, body) : pending' = Schedule(t)
               /\ res' = Response("updateReview", 200)
  /\ UNCHANGED <<tours, nextTour, nextReview, userVars>>

deleteReview(id) ==
  /\ IF ReviewById(id) = {}
     THEN /\ res' = Response("deleteReview", 404)
          /\ UNCHANGED <<reviews, pending>>
     ELSE LET r == CHOOSE x \in ReviewById(id) : TRUE IN
          /\ reviews' = reviews \ {r}
          /\ pending' = Schedule(r.tour)
          /\ res' = Response("deleteReview", 204)
  /\ UNCHANGED <<tours, nextTour, nextReview, userVars>>

(* ---------------------- tour controller -------------------------------- *)
RatingsAverageValid(v) ==
  FracLeq(Frac(MIN_RATING, 1), v) /\ FracLeq(v, Frac(MAX_RATING, 1))

(* the priceDiscount validator: val < this.price. On save, this is the    *)
(* document; in an update validator this is not the document, this.price  *)
(* is undefined and the comparison is false                               *)
PriceDiscountValid(val, isNew, doc) == isNew /\ val < doc.price

(* name is a unique index: a write that gives a tour the name of another  *)
(* stored tour fails with a duplicate-key error                           *)
NameTaken(body, except) ==
  /\ Given(body.name)
  /\ \E t \in TourIds \ {except} : tours[t].exists /\ tours[t].name = body.name[1]

(* validators run for the paths that are set: every path of a new         *)
(* document, the paths named in the body of an update                     *)
TourBodyValid(body, isNew, doc) ==
  /\ Given(body.ratingsAverage) => RatingsAverageValid(body.ratingsAverage[1])
  /\ isNew => (Given(body.name) /\ Given(body.price))
  /\ Given(body.priceDiscount) => PriceDiscountValid(body.priceDiscount[1], isNew, doc)

ApplyTourBody(t, body) ==
  [t EXCEPT !.ratingsAverage = IF Given(body.ratingsAverage)
                               THEN body.ratingsAverage[1] ELSE @,
            !.ratingsQuantity = IF Given(body.ratingsQuantity)
                                THEN body.ratingsQuantity[1] ELSE @,
            !.name = IF Given(body.name) THEN body.name[1] ELSE @,
            !.price = IF Given(body.price) THEN body.price[1] ELSE @,
            !.priceDiscount = IF Given(body.priceDiscount)
                              THEN body.priceDiscount ELSE @]

(* tourSchema.pre('save'): the slug is derived from the name *)
PreSaveSlug(t) == [t EXCEPT !.slug = Slugify(t.name)]

(* the error mongoose raises for a write of body, "" when it raises none *)
TourWriteError(body, isNew, doc, except) ==
  IF ~TourBodyValid(body, isNew, doc) THEN "ValidationError"
  ELSE IF NameTaken(body, except) THEN "E11000"
  ELSE ""

createTour(body) ==
  /\ nextTour <= MaxTours
  /\ IF TourWriteError(body, TRUE, ApplyTourBody(NewTour, body), Absent) = ""
     THEN /\ tours' = [tours EXCEPT ![nextTour] =
                         PreSaveSlug(ApplyTourBody(NewTour, body))]
          /\ nextTour' = nextTour + 1
          /\ res' = Response("createTour", 201)
     ELSE /\ res' = globalErrorHandler("createTour",
                 TourWriteError(body, TRUE, ApplyTourBody(NewTour, body), Absent))
          /\ UNCHANGED <<tours, nextTour>>
  /\ UNCHANGED <<reviews, nextReview, pending, userVars>>

updateTour(id, body) ==
  /\ IF ~tours[id].exists
     THEN /\ res' = Response("updateTour", 404)
          /\ UNCHANGED tours
     ELSE IF TourWriteError(body, FALSE, tours[id], id) # ""
     THEN /\ res' = globalErrorHandler("updateTour",
                                       TourWriteError(body, FALSE, tours[id], id))
          /\ UNCHANGED tours
     ELSE /\ tours' = [tours EXCEPT ![id] = ApplyTourBody(@, body)]
          /\ res' = Response("updateTour", 200)
  /\ UNCHANGED <<nextTour, reviews, nextReview, pending, userVars>>

deleteTour(id) ==
  /\ IF ~tours[id].exists
     THEN /\ res' = Response("deleteTour", 404)
          /\ UNCHANGED tours
     ELSE /\ tours' = [tours EXCEPT ![id] = NoTour]
          /\ res' = Response("deleteTour", 204)
  /\ UNCHANGED <<nextTour, reviews, nextReview, pending, userVars>>

(* getOne(Tour, { path: 'reviews' }) *)
getTour(id) ==
  /\ res' = IF tours[id].exists THEN Response("getTour", 200) ELSE Response("getTour", 404)
  /\ UNCHANGED <<tourVars, reviewVars, userVars>>

(* getOne(Review) *)
getReview(id) ==
  /\ res' = IF ReviewById(id) # {} THEN Response("getReview", 200)
            ELSE Response("getReview", 404)
  /\ UNCHANGED <<tourVars, reviewVars, userVars>>

(* getAll(Review): the conditions of Review.find(filter), then of          *)
(* APIFeatures.filter(), which calls query.find(queryObj) on the same query; *)
(* a condition of the later find replaces one on the same path              *)
NoConditions == [tour |-> None, rating |-> None]

NestedFilter(paramTourId) ==
  IF paramTourId # Absent THEN [NoConditions EXCEPT !.tour = Some(paramTourId)]
  ELSE NoConditions

MergeConditions(conditions, queryObj) ==
  [f \in DOMAIN conditions |-> IF Given(queryObj[f]) THEN queryObj[f] ELSE conditions[f]]

Matches(r, conditions) ==
  /\ Given(conditions.tour) => r.tour = conditions.tour[1]
  /\ Given(conditions.rating) => r.rating = conditions.rating[1]

getAllReviews(paramTourId, queryObj) ==
  /\ res' = SendList("getAllReviews",
                     Ordered({r.id : r \in {x \in reviews :
                        Matches(x, MergeConditions(NestedFilter(paramTourId), queryObj))}}),
                     NoQueryString)
  /\ UNCHANGED <<tourVars, reviewVars, userVars>>

(* getReviewsByUser: Review.find({ user: req.params.userId }) through the  *)
(* APIFeatures chain                                                       *)
getReviewsByUser(userId, queryString) ==
  /\ res' = SendList("getReviewsByUser",
                     Ordered({r.id : r \in {x \in reviews : x.user = userId}}),
                     queryString)
  /\ UNCHANGED <<tourVars, reviewVars, userVars>>

(* getAllTours: Tour.find() through the APIFeatures chain *)
getAllTours(queryString) ==
  /\ res' = SendList("getAllTours", Ordered({t \in TourIds : tours[t].exists}), queryString)
  /\ UNCHANGED <<tourVars, reviewVars, userVars>>

(* ---------------------- routes ------------------------------------------ *)
Public(param) == [NoRequest EXCEPT !.param = param, !.ran = TRUE]

Signup(body) == signup(body) /\ req' = Public(Absent)

Login(body) == login(body) /\ req' = [Public(Absent) EXCEPT !.email = body.email]

ForgotPassword(body, n, delivered) == forgotPassword(body, n, delivered) /\ req' = Public(Absent)

ResetPassword(n, body) == resetPassword(n, body) /\ req' = Public(n)

UpdateMyPassword(header, body) ==
  LET g == Guard(header, {}) IN
  IF g.status = 0
  THEN updatePassword(g.user, body) /\ req' = Admitted(header, Absent, g)
  ELSE Refuse(header, Absent, g, "updateMyPassword")

GetMe(header) ==
  LET g == Guard(header, {}) IN
  IF g.status = 0
  THEN getUser(g.user, "getMe") /\ req' = Admitted(header, Absent, g)
  ELSE Refuse(header, Absent, g, "getMe")

UpdateMe(header, body) ==
  LET g == Guard(header, {}) IN
  IF g.status = 0
  THEN updateMe(g.user, body) /\ req' = Admitted(header, Absent, g)
  ELSE Refuse(header, Absent, g, "updateMe")

DeleteMe(header) ==
  LET g == Guard(header, {}) IN
  IF g.status = 0
  THEN deleteMe(g.user) /\ req' = Admitted(header, Absent, g)
  ELSE Refuse(header, Absent, g, "deleteMe")

AdminOnly == {"admin"}

GetAllUsers(header) ==
  LET g == Guard(header, AdminOnly) IN
  IF g.status = 0
  THEN getAllUsers /\ req' = Admitted(header, Absent, g)
  ELSE Refuse(header, Absent, g, "getAllUsers")

GetUser(header, id) ==
  LET g == Guard(header, AdminOnly) IN
  IF g.status = 0
  THEN getUser(id, "getUser") /\ req' = Admitted(header, id, g)
  ELSE Refuse(header, id, g, "getUser")

CreateUser(header, body) ==
  LET g == Guard(header, AdminOnly) IN
  IF g.status = 0
  THEN createUser(body) /\ req' = Admitted(header, Absent, g)
  ELSE Refuse(header, Absent, g, "createUser")

UpdateUser(header, id, body) ==
  LET g == Guard(header, AdminOnly) IN
  IF g.status = 0
  THEN updateUser(id, body) /\ req' = Admitted(header, id, g)
  ELSE Refuse(header, id, g, "updateUser")

DeleteUser(header, id) ==
  LET g == Guard(header, AdminOnly) IN
  IF g.status = 0
  THEN deleteUser(id) /\ req' = Admitted(header, id, g)
  ELSE Refuse(header, id, g, "deleteUser")

GetAllTours(queryString) == getAllTours(queryString) /\ req' = Public(Absent)

GetReviewsByUser(userId, queryString) ==
  getReviewsByUser(userId, queryString) /\ req' = Public(userId)

GetAllReviews(paramTourId, queryObj) ==
  getAllReviews(paramTourId, queryObj) /\ req' = Public(paramTourId)

CreateReview(header, paramTourId, body) ==
  LET g == Guard(header, ReviewAuthors) IN
  IF g.status = 0
  THEN createReview(g.user, paramTourId, body) /\ req' = Admitted(header, paramTourId, g)
  ELSE Refuse(header, paramTourId, g, "createReview")

TourEditors == {"admin", "lead-guide"}

CreateTour(header, body) ==
  LET g == Guard(header, TourEditors) IN
  IF g.status = 0
  THEN createTour(body) /\ req' = Admitted(header, Absent, g)
  ELSE Refuse(header, Absent, g, "createTour")

UpdateTour(header, id, body) ==
  LET g == Guard(header, TourEditors) IN
  IF g.status = 0
  THEN updateTour(id, body) /\ req' = Admitted(header, id, g)
  ELSE Refuse(header, id, g, "updateTour")

DeleteTour(header, id) ==
  LET g == Guard(header, TourEditors) IN
  IF g.status = 0
  THEN deleteTour(id) /\ req' = Admitted(header, id, g)
  ELSE Refuse(header, id, g, "deleteTour")

(* ---------------------- initial states --------------------------------- *)
(* a tour stored by an earlier create: named, priced, slug from the name *)
SeededTour(t) == PreSaveSlug([NewTour EXCEPT !.name = t, !.price = MaxPrice])

SeedRole(u) == IF u = 1 THEN "admin" ELSE "user"

InitUsersSeeded ==
  /\ users = [u \in UserIds |-> StoredUser(SeedRole(u), u, 1)]
  /\ nextUser = MaxUsers + 1
  /\ issued = {}
  /\ clock = Time(1, 0)
  /\ ticks = 0
  /\ mailbox = {}
  /\ req = NoRequest
  /\ hist = NoHistory
  /\ NODE_ENV \in Envs
  /\ limiter = NoHits

InitReviewsEmpty ==
  /\ reviews = {}
  /\ nextReview = 1
  /\ pending = {}
  /\ res = [route |-> "", status |-> 0, password |-> NoPassword, seq |-> 0,
            token |-> None, user |-> Absent, listed |-> {}, data |-> <<>>, results |-> None,
            jsend |-> "", thrown |-> "", operational |-> FALSE]

InitCatalogue ==
  /\ tours = [t \in TourIds |-> SeededTour(t)]
  /\ nextTour = MaxTours + 1
  /\ InitReviewsEmpty
  /\ InitUsersSeeded

(* ---------------------- ratings, sequential requests ------------------- *)
RatingInputs == {3, 5, 6}

NestedBodies(ratings) ==
  [tour : {Absent}, tourId : {Absent}, user : {Absent}, userId : {Absent},
   rating : ratings]

ReviewPatches == [rating : {Absent, 3, 5}, tour : {Absent} \cup TourIds]

Settled == pending = {}

CalcStep == \E p \in pending : CalcAggregate(p) \/ CalcUpdate(p)

Customers == {u \in UserIds : Visible(u) /\ users[u].role \in ReviewAuthors}

ReviewWrite ==
  \/ \E u \in Customers, t \in TourIds, b \in NestedBodies(RatingInputs) : createReview(u, t, b)
  \/ \E id \in ReviewIds, b \in ReviewPatches : updateReview(id, b)
  \/ \E id \in ReviewIds : deleteReview(id)

NextRatings == (Settled /\ ReviewWrite /\ UNCHANGED req) \/ CalcStep

SpecRatings == InitCatalogue /\ [][NextRatings]_vars

(* ---------------------- ratings, overlapping requests ----------------- *)
MaxPending == 2

NextRace == (Cardinality(pending) < MaxPending /\ ReviewWrite /\ UNCHANGED req) \/ CalcStep

SpecRace == InitCatalogue /\ [][NextRace]_vars

(* ---------------------- review authorship ------------------------------ *)
Passwords == 1..MaxPasswords

LoginBodies == [email : {Absent} \cup UserIds, password : {Absent} \cup Passwords]

SeededLogins == [email : UserIds, password : {1}]

AnyReviewBodies ==
  [tour : {Absent, 1}, tourId : {Absent, 1},
   user : {Absent} \cup UserIds, userId : {Absent} \cup UserIds, rating : {5}]

NextAuthor ==
  \/ \E b \in LoginBodies : Login(b)
  \/ \E h \in Headers, t \in {Absent, 1}, b \in AnyReviewBodies :
        CreateReview(h, t, b)
  \/ CalcStep

SpecAuthor == InitCatalogue /\ [][NextAuthor]_vars

(* ---------------------- tour writes ------------------------------------ *)
InitEmptyCatalogue ==
  /\ tours = [t \in TourIds |-> NoTour]
  /\ nextTour = 1
  /\ InitReviewsEmpty
  /\ InitUsersSeeded

TourBodies ==
  [ratingsAverage : {None, Some(Frac(1, 1))},
   ratingsQuantity : {None, Some(7)},
   name : {Some(n) : n \in TourNames}, price : {Some(MaxPrice)},
   priceDiscount : {None}]

TourPatches ==
  [ratingsAverage : {None, Some(Frac(6, 1))},
   ratingsQuantity : {None, Some(7)},
   name : {None}, price : {None}, priceDiscount : {None}]

NextTours ==
  \/ \E b \in SeededLogins : Login(b)
  \/ \E h \in Headers, b \in TourBodies : CreateTour(h, b)
  \/ \E h \in Headers, t \in TourIds, b \in TourPatches : UpdateTour(h, t, b)
  \/ \E h \in Headers, t \in TourIds, b \in NestedBodies({5}) : CreateReview(h, t, b)
  \/ CalcStep

(* the ratings of a tour do not depend on the environment: one is checked *)
InitTours == InitEmptyCatalogue /\ NODE_ENV = "production"

SpecTours == InitTours /\ [][NextTours]_vars

(* ---------------------- sessions: tokens and password changes -------- *)
(* the seeded standard users act; the seeded admin stays idle              *)
SeededCustomers == {u \in UserIds : SeedRole(u) \in ReviewAuthors}

CustomerLogins == [email : SeededCustomers, password : Passwords]

PasswordBodies ==
  [passwordCurrent : Passwords, password : Passwords, passwordConfirm : Passwords]

ResetBodies == [password : Passwords, passwordConfirm : Passwords]

CustomerEmails == [email : SeededCustomers]

EmailBodies == [email : UserIds]

SessionTicks == {Time(0, 500), Time(1, 500)}

NextSessions ==
  \/ \E b \in CustomerLogins : Login(b)
  \/ \E h \in Headers, b \in PasswordBodies : UpdateMyPassword(h, b)
  \/ \E b \in CustomerEmails, n \in ResetTokens, ok \in BOOLEAN : ForgotPassword(b, n, ok)
  \/ \E n \in ResetTokens, b \in ResetBodies : ResetPassword(n, b)
  \/ \E h \in Headers : GetMe(h)
  \/ \E d \in SessionTicks : Tick(d)

SpecSessions == InitCatalogue /\ [][NextSessions]_vars

(* ---------------------- the protect middleware -------------------------- *)
ProtectTicks == {Time(1, 500), Time(JWT_EXPIRES_IN, 0)}

NextPasswords == [passwordCurrent : {1}, password : {2}, passwordConfirm : {2}]

NextProtect ==
  \/ \E b \in SeededLogins : Login(b)
  \/ \E h \in Headers, b \in NextPasswords : UpdateMyPassword(h, b)
  \/ \E h \in Headers : GetMe(h)
  \/ \E h \in Headers : DeleteMe(h)
  \/ \E h \in Headers, u \in UserIds : DeleteUser(h, u)
  \/ \E d \in ProtectTicks : Tick(d)

SpecProtect == InitCatalogue /\ [][NextProtect]_vars

(* ---------------------- reset tokens ---------------------------------- *)
ResetTicks == {Time(0, 500), Time(599, 500)}

NextResets ==
  \/ \E b \in CustomerEmails, n \in ResetTokens, ok \in BOOLEAN : ForgotPassword(b, n, ok)
  \/ \E n \in ResetTokens, b \in ResetBodies : ResetPassword(n, b)
  \/ \E b \in CustomerLogins : Login(b)
  \/ \E d \in ResetTicks : Tick(d)

SpecResets == InitCatalogue /\ [][NextResets]_vars

(* ---------------------- roles ------------------------------------------ *)
RoleBodies == [password : {Absent}, role : Roles]

QuantityBodies == [ratingsAverage : {None}, ratingsQuantity : {Some(7)},
                   name : {None}, price : {None}, priceDiscount : {None}]

NextRoles ==
  \/ \E b \in SeededLogins : Login(b)
  \/ \E h \in Headers, u \in UserIds, b \in RoleBodies : UpdateUser(h, u, b)
  \/ \E h \in Headers, b \in NestedBodies({5}) : CreateReview(h, 1, b)
  \/ \E h \in Headers, b \in QuantityBodies : UpdateTour(h, 1, b)
  \/ CalcStep

SpecRoles == InitCatalogue /\ [][NextRoles]_vars

(* ---------------------- accounts --------------------------------------- *)
InitAdminOnly ==
  /\ users = [u \in UserIds |-> IF SeedRole(u) = "admin"
                                THEN StoredUser("admin", u, 1) ELSE NoUser]
  /\ nextUser = 2
  /\ issued = {}
  /\ clock = Time(1, 0)
  /\ ticks = 0
  /\ mailbox = {}
  /\ req = NoRequest
  /\ hist = NoHistory
  /\ NODE_ENV \in Envs
  /\ limiter = NoHits

InitAccounts ==
  /\ tours = [t \in TourIds |-> SeededTour(t)]
  /\ nextTour = MaxTours + 1
  /\ InitReviewsEmpty
  /\ InitAdminOnly

SignupBodies == [email : UserIds, password : {1}, passwordConfirm : Passwords]

ProfileBodies ==
  [password : {Absent, 2}, passwordConfirm : {Absent}, email : {Absent} \cup UserIds]

AdminBodies == [password : {Absent, 2}, role : {""}]

NextAccounts ==
  \/ \E b \in SignupBodies : Signup(b)
  \/ \E b \in SeededLogins : Login(b)
  \/ \E h \in Headers, b \in NextPasswords : UpdateMyPassword(h, b)
  \/ \E b \in EmailBodies, n \in ResetTokens : ForgotPassword(b, n, TRUE)
  \/ \E n \in ResetTokens, b \in ResetBodies : ResetPassword(n, b)
  \/ \E h \in Headers, b \in ProfileBodies : UpdateMe(h, b)
  \/ \E h \in Headers : DeleteMe(h)
  \/ \E h \in Headers, u \in UserIds : GetUser(h, u)
  \/ \E h \in Headers, u \in UserIds, b \in AdminBodies : UpdateUser(h, u, b)
  \/ \E h \in Headers, u \in UserIds : DeleteUser(h, u)

SpecAccounts == InitAccounts /\ [][NextAccounts]_vars

(* ---------------------- claims ----------------------------------------- *)
RatingsExact(t) ==
  /\ tours[t].ratingsQuantity = Cardinality(ReviewsOf(t))
  /\ tours[t].ratingsAverage.num * Cardinality(ReviewsOf(t))
       = SumRatings(ReviewsOf(t)) * tours[t].ratingsAverage.den

(* C1: whenever no recomputation is outstanding, every tour that has at    *)
(* least one review carries the exact mean of its reviews' ratings as      *)
(* ratingsAverage and their number as ratingsQuantity.                     *)
C1_RatingsMatchReviews ==
  Settled => \A t \in TourIds :
               (tours[t].exists /\ ReviewsOf(t) # {}) => RatingsExact(t)

Reviewed(t) == ReviewsOf(t) # {}

(* C10: when a recomputation that never overlapped another one for the    *)
(* same tour completes, the tour's ratings equal the aggregate over its    *)
(* current reviews (the defaults when it has none).                        *)
C10_NextWriteSettles ==
  [][\A p \in pending :
       (p.alone /\ p.pc = "update" /\ pending' = pending \ {p} /\ tours[p.tour].exists)
         => IF Reviewed(p.tour)
            THEN RatingsExact(p.tour)'
            ELSE /\ tours'[p.tour].ratingsQuantity = DEFAULT_RATINGS_QUANTITY
                 /\ tours'[p.tour].ratingsAverage = DEFAULT_RATINGS_AVERAGE]_vars

(* C8: the review stored by a successful create names the authenticated    *)
(* caller as its author.                                                   *)
C8_AuthorIsCaller ==
  (res.route = "createReview" /\ res.status = 201)
    => \A r \in reviews : r.id = nextReview - 1 => r.user = req.user

(* C9: no create-tour or update-tour request changes a tour's ratingsAverage *)
(* or ratingsQuantity; a created tour starts with the defaults.            *)
C9_TourWritesKeepRatings ==
  [][(res'.seq # res.seq /\ res'.route \in {"createTour", "updateTour"})
       => \A t \in TourIds :
            /\ tours[t].exists =>
                 /\ tours'[t].ratingsAverage = tours[t].ratingsAverage
                 /\ tours'[t].ratingsQuantity = tours[t].ratingsQuantity
            /\ (~tours[t].exists /\ tours'[t].exists) =>
                 /\ tours'[t].ratingsAverage = DEFAULT_RATINGS_AVERAGE
                 /\ tours'[t].ratingsQuantity = DEFAULT_RATINGS_QUANTITY]_vars

LastChange(id) == hist.passwordChange[id]

ProtectedRoutes ==
  {"updateMyPassword", "getMe", "updateMe", "deleteMe", "getUser", "updateUser",
   "deleteUser", "createReview", "createTour", "updateTour"}

Authentic(h) ==
  /\ Given(h)
  /\ \E k \in issued : k.token = h[1]
  /\ Seconds(clock) < h[1].iat + 90 * 24 * 60 * 60

Owned(h) == users[h[1].id].exists /\ users[h[1].id].active

(* the stamp of the last password change lies a second before the change;  *)
(* a token is outdated when its issue second is earlier than the stamp's   *)
Outdated(h) ==
  /\ Given(LastChange(h[1].id))
  /\ h[1].iat < Seconds(AddMs(LastChange(h[1].id)[1], 0 - MS_PER_SECOND))

IssuedBeforeChange(h) ==
  /\ Given(LastChange(h[1].id))
  /\ \A k \in issued : k.token = h[1] => TimeLess(k.at, LastChange(h[1].id)[1])

ChecksPassed(h, stale) ==
  IF ~Given(h) THEN 0
  ELSE IF ~Authentic(h) THEN 1
  ELSE IF ~Owned(h) THEN 2
  ELSE IF stale THEN 3
  ELSE 4

ProtectGate(h, stale, invalidStatus) ==
  /\ req'.ran => /\ ChecksPassed(h, stale) = 4
                 /\ req'.passed = Stages
                 /\ req'.user = h[1].id
  /\ ChecksPassed(h, stale) < 4 =>
       /\ res'.status = IF ChecksPassed(h, stale) = 1 THEN invalidStatus ELSE 401
       /\ ~req'.ran
       /\ req'.passed = SubSeq(Stages, 1, ChecksPassed(h, stale))

C3_NoPlaintextPassword ==
  /\ \A u \in UserIds : users[u].exists => users[u].password.kind # "plain"
  /\ res.password.kind = "none"

RequestTo(route) == res'.seq # res.seq /\ res'.route = route

ResetMails(n) == {m \in mailbox : m.token = n}

ResetWindowOpen(n) ==
  \E m \in ResetMails(n) : TimeLess(clock, AddMs(m.at, 10 * 60 * MS_PER_SECOND))

(* C5: a reset token is accepted at most once, and only less than ten      *)
(* minutes after it was mailed; a request with a token that was already    *)
(* accepted, or whose ten minutes have passed, answers 400 and changes no   *)
(* user.                                                                   *)
C5_ResetTokenOnce ==
  [][\A n \in ResetTokens :
       /\ hist'.resetUses[n] <= 1
       /\ hist'.resetUses[n] # hist.resetUses[n] => ResetWindowOpen(n)
       /\ ( /\ RequestTo("resetPassword") /\ req'.param = n
            /\ (hist.resetUses[n] >= 1 \/ ~ResetWindowOpen(n)) )
            => (res'.status = 400 /\ users' = users)]_vars

C5_ReuseSeenRefused ==
  \E n \in ResetTokens :
    /\ hist.resetUses[n] = 1
    /\ req.param = n
    /\ res.route = "resetPassword" /\ res.status = 400

AllowedRoles(route) ==
  CASE route = "createReview" -> {"user"}
    [] route \in {"createTour", "updateTour"} -> {"admin", "lead-guide"}
    [] route \in {"getUser", "updateUser", "deleteUser"} -> {"admin"}

GatedRoutes ==
  {"createReview", "createTour", "updateTour", "getUser", "updateUser", "deleteUser"}

(* C7: an authenticated request to a role-gated route reaches the handler  *)
(* exactly when the caller's role is one the route allows, and is answered *)
(* 403 otherwise; creating a review is allowed to the role user only.      *)
C7_RoleGate ==
  [][(res'.seq # res.seq /\ res'.route \in GatedRoutes /\ req'.passed = Stages)
       => /\ req'.ran <=> users[req'.user].role \in AllowedRoles(res'.route)
          /\ ~req'.ran => res'.status = 403]_vars

C7_ReviewRefusedForAdmin ==
  /\ res.route = "createReview" /\ res.status = 403
  /\ ~req.ran
  /\ users[req.user].role = "admin"

(* C11: when a recomputation that found no review for its tour completes,  *)
(* the tour carries the default ratingsAverage and ratingsQuantity.        *)
C11_ZeroReviewsResetDefaults ==
  [][\A p \in pending :
       ( /\ p.pc = "update" /\ pending' = pending \ {p}
         /\ tours[p.tour].exists /\ ~StatsUsable(p.stats) )
         => /\ tours'[p.tour].ratingsAverage = DEFAULT_RATINGS_AVERAGE
            /\ tours'[p.tour].ratingsQuantity = DEFAULT_RATINGS_QUANTITY]_vars

(* ---------------------- tour prices and names -------------------------- *)
PriceBodies ==
  [ratingsAverage : {None}, ratingsQuantity : {None},
   name : {None} \cup {Some(n) : n \in TourNames},
   price : {None} \cup {Some(v) : v \in Prices},
   priceDiscount : {None} \cup {Some(v) : v \in Prices}]

NextPricing ==
  \/ \E b \in SeededLogins : Login(b)
  \/ \E h \in Headers, b \in PriceBodies : CreateTour(h, b)
  \/ \E h \in Headers, t \in TourIds, b \in PriceBodies : UpdateTour(h, t, b)

SpecPricing == InitEmptyCatalogue /\ [][NextPricing]_vars

(* C12: every stored tour that has a discounted price has it strictly     *)
(* below its price.                                                        *)
C12_DiscountBelowPrice ==
  \A t \in TourIds :
    (tours[t].exists /\ Given(tours[t].priceDiscount))
      => tours[t].priceDiscount[1] < tours[t].price

(* C13: the slug of every stored tour is the slug derived from the tour's  *)
(* current name.                                                           *)
C13_SlugFollowsName ==
  \A t \in TourIds : tours[t].exists => tours[t].slug = Slugify(tours[t].name)

(* ---------------------- deletions and references ----------------------- *)
NextOrphans ==
  \/ \E b \in SeededLogins : Login(b)
  \/ \E h \in Headers, t \in TourIds, b \in NestedBodies({5}) : CreateReview(h, t, b)
  \/ \E h \in Headers, t \in TourIds : DeleteTour(h, t)
  \/ \E h \in Headers, u \in UserIds : DeleteUser(h, u)
  \/ CalcStep

SpecOrphans == InitCatalogue /\ [][NextOrphans]_vars

(* C14: every stored review references a tour that is stored and a user    *)
(* that is stored.                                                         *)
C14_ReviewsReferenceStored ==
  \A r \in reviews :
    /\ r.tour \in TourIds /\ tours[r.tour].exists
    /\ r.user \in UserIds /\ users[r.user].exists

(* ---------------------- inactive users --------------------------------- *)
NextInactive ==
  \/ \E b \in SeededLogins : Login(b)
  \/ \E h \in Headers : DeleteMe(h)
  \/ \E h \in Headers : GetMe(h)
  \/ \E h \in Headers : GetAllUsers(h)
  \/ \E h \in Headers, u \in UserIds : GetUser(h, u)

SpecInactive == InitCatalogue /\ [][NextInactive]_vars

Inactive(u) == u \in UserIds /\ users[u].exists /\ ~users[u].active

NextSignup ==
  \/ \E b \in SignupBodies : Signup(b)
  \/ \E b \in LoginBodies : Login(b)
  \/ \E h \in Headers : GetMe(h)

SpecSignup == InitAccounts /\ [][NextSignup]_vars

NewName == MaxUsers + 1

PlainProfileBodies ==
  [password : {Absent, 2}, passwordConfirm : {Absent, 2},
   email : {Absent} \cup UserIds, name : {Absent, NewName}]

PrivilegedProfileBodies ==
  [password : {Absent}, passwordConfirm : {Absent}, email : {Absent},
   name : {Absent, NewName}, role : {"admin"}, active : BOOLEAN]

UpdateMeBodies == PlainProfileBodies \cup PrivilegedProfileBodies

NextProfile ==
  \/ \E b \in SeededLogins : Login(b)
  \/ \E h \in Headers, b \in UpdateMeBodies : UpdateMe(h, b)
  \/ \E h \in Headers : GetMe(h)

SpecProfile == InitCatalogue /\ [][NextProfile]_vars

CarriesPassword(b) == Sent(b, "password") \/ Sent(b, "passwordConfirm")

NextPasswordChange ==
  \/ \E b \in CustomerLogins : Login(b)
  \/ \E h \in Headers, b \in PasswordBodies : UpdateMyPassword(h, b)
  \/ \E h \in Headers : GetMe(h)
  \/ \E d \in SessionTicks : Tick(d)

SpecPasswordChange == InitCatalogue /\ [][NextPasswordChange]_vars

(* the stored credential verifies the plaintext p for user u *)
Knows(u, p) == users[u].password = Hash(p)

(* C18: updateMyPassword changes a stored user only for an authenticated    *)
(* caller who supplies the current password; a wrong current password is    *)
(* answered 401 with no token and every user unchanged; the correct one     *)
(* with a confirmed new password is answered 200 with a token for the       *)
(* caller and stores the hash of the new password, and every login with     *)
(* the email and the stored password of a visible user is answered 200      *)
(* with a token                                                             *)
C18_CurrentPasswordRequired ==
  [][/\ \A h \in Headers, b \in PasswordBodies : UpdateMyPassword(h, b) =>
          LET g == Guard(h, {}) IN
          /\ users' # users => (g.status = 0 /\ Knows(g.user, b.passwordCurrent))
          /\ (g.status = 0 /\ ~Knows(g.user, b.passwordCurrent)) =>
               (res'.status = 401 /\ res'.token = None /\ users' = users)
          /\ (g.status = 0 /\ Knows(g.user, b.passwordCurrent)
                /\ b.password = b.passwordConfirm) =>
               /\ res'.status = 200
               /\ res'.token = Some(signToken(g.user))
               /\ users'[g.user].password = Hash(b.password)
               /\ users'[g.user].email = users[g.user].email
               /\ users'[g.user].exists /\ users'[g.user].active
     /\ \A b \in CustomerLogins : Login(b) =>
          ((\E u \in UserIds : Visible(u) /\ users[u].email = b.email /\ Knows(u, b.password))
             => (res'.status = 200 /\ Given(res'.token)))]_vars

C18_LoginWithNewPassword ==
  /\ res.route = "login" /\ res.status = 200
  /\ \E u \in UserIds : /\ res.user = u /\ Given(hist.passwordChange[u])
                        /\ users[u].password = Hash(2)
                        /\ req.email = users[u].email

(* ---------------------- resetting a forgotten password ------------------ *)
(* n is the token of the latest reset mail sent to user u *)
LatestMail(u, n) ==
  \E m \in ResetMails(n) :
    /\ m.user = u
    /\ \A o \in mailbox : (o.user = u /\ o # m) => TimeLess(o.at, m.at)

(* C19: a resetPassword request with the token of the latest reset mail to  *)
(* an active user, less than ten minutes after the mail, the token never    *)
(* used and the reset still outstanding, with a confirmed new password, is  *)
(* answered 200 with a token for that user, stores the hash of the new      *)
(* password and clears the stored reset token and its expiry; every login   *)
(* with the email and the stored password of a visible user is answered     *)
(* 200 with a token                                                         *)
C19_EmailedTokenResets ==
  [][/\ \A n \in ResetTokens, b \in ResetBodies, u \in UserIds :
          ( /\ ResetPassword(n, b)
            /\ LatestMail(u, n) /\ ResetWindowOpen(n) /\ hist.resetUses[n] = 0
            /\ Visible(u) /\ Given(users[u].passwordResetExpires)
            /\ b.password = b.passwordConfirm )
          => /\ res'.status = 200
             /\ res'.token = Some(signToken(u))
             /\ users'[u].password = Hash(b.password)
             /\ users'[u].passwordResetToken = NoResetToken
             /\ users'[u].passwordResetExpires = None
             /\ users'[u].exists /\ users'[u].active
             /\ users'[u].email = users[u].email
     /\ \A b \in CustomerLogins :
          ( /\ Login(b)
            /\ \E u \in UserIds : /\ Visible(u) /\ users[u].email = b.email
                                  /\ users[u].password = Hash(b.password) )
          => (res'.status = 200 /\ Given(res'.token))]_vars

C19_LoginAfterReset ==
  /\ res.route = "login" /\ res.status = 200
  /\ \E u \in UserIds, n \in ResetTokens :
       /\ res.user = u /\ LatestMail(u, n) /\ hist.resetUses[n] = 1
       /\ users[u].password = Hash(2) /\ req.email = users[u].email
       /\ users[u].passwordResetToken = NoResetToken
       /\ users[u].passwordResetExpires = None

(* ---------------------- error translation ------------------------------- *)
AnyIds == UserIds \cup {MalformedId}

ExpiryTicks == {Time(JWT_EXPIRES_IN, 0)}

NextErrors ==
  \/ \E b \in SignupBodies : Signup(b)
  \/ \E b \in SeededLogins : Login(b)
  \/ \E h \in Headers, id \in AnyIds : GetUser(h, id)
  \/ \E h \in Headers : GetMe(h)
  \/ \E d \in ExpiryTicks : Tick(d)

SpecErrors == InitAccounts /\ [][NextErrors]_vars

(* what the client receives for a library error that translates to status  *)
Delivered(status) ==
  IF NODE_ENV = "production"
  THEN res'.status = status /\ res'.operational
  ELSE res'.status = 500 /\ ~res'.operational

FactoryTourPatches == {b \in TourPatches : b.ratingsAverage = None}

FactoryReviewPatches == [rating : {3}, tour : {Absent}]

FactoryUserBodies == [password : {Absent}, role : {"guide"}]

FactoryCall ==
  \/ \E u \in Customers, b \in NestedBodies({5}) : createReview(u, 1, b)
  \/ \E u \in UserIds : Visible(u) /\ deleteMe(u)
  \/ \E id \in TourIds : getTour(id)
  \/ \E id \in TourIds, b \in FactoryTourPatches : updateTour(id, b)
  \/ \E id \in TourIds : deleteTour(id)
  \/ \E id \in ReviewIds : getReview(id)
  \/ \E id \in ReviewIds, b \in FactoryReviewPatches : updateReview(id, b)
  \/ \E id \in ReviewIds : deleteReview(id)
  \/ \E id \in UserIds : getUser(id, "getUser")
  \/ \E id \in UserIds, b \in FactoryUserBodies : updateUser(id, b)
  \/ \E id \in UserIds : deleteUser(id)

NextFactory == (Settled /\ FactoryCall /\ UNCHANGED req) \/ CalcStep

InitFactory == InitCatalogue /\ NODE_ENV = "production"

SpecFactory == InitFactory /\ [][NextFactory]_vars

NotFound == res'.status = 404 /\ tours' = tours /\ reviews' = reviews /\ users' = users

(* a 204 response carries no document *)
NoContent == res'.status = 204 /\ res'.user = Absent /\ res'.token = None /\ res'.listed = {}

ReviewQueries == [tour : {None} \cup {Some(t) : t \in TourIds}, rating : {None, Some(5)}]

NextListing ==
  \/ \E b \in SeededLogins : Login(b)
  \/ \E h \in Headers, t \in TourIds, b \in NestedBodies({3, 5}) : CreateReview(h, t, b)
  \/ \E t \in TourIds \cup {Absent}, q \in ReviewQueries : GetAllReviews(t, q)
  \/ CalcStep

SpecListing == InitFactory /\ [][NextListing]_vars

(* C22: a list request under /tours/:tourId/reviews returns only reviews    *)
(* whose tour is :tourId, whatever filters the query string carries         *)
C22_NestedListOnlyThatTour ==
  [][\A t \in TourIds, q \in ReviewQueries : GetAllReviews(t, q) =>
       \A r \in reviews : r.id \in res'.listed => r.tour = t]_vars

(* ---------------------- the users router -------------------------------- *)
RouterResets == [password : {2}, passwordConfirm : {2}]

RouterProfiles == [password : {Absent}, passwordConfirm : {Absent}, email : {Absent}]

NextUsersRouter ==
  \/ \E b \in SignupBodies : Signup(b)
  \/ \E b \in SeededLogins : Login(b)
  \/ \E b \in EmailBodies, n \in ResetTokens : ForgotPassword(b, n, TRUE)
  \/ \E n \in ResetTokens, b \in RouterResets : ResetPassword(n, b)
  \/ \E h \in Headers, b \in NextPasswords : UpdateMyPassword(h, b)
  \/ \E h \in Headers : GetMe(h)
  \/ \E h \in Headers, b \in RouterProfiles : UpdateMe(h, b)
  \/ \E h \in Headers : DeleteMe(h)
  \/ \E h \in Headers : GetAllUsers(h)
  \/ \E h \in Headers, u \in UserIds : GetUser(h, u)
  \/ \E h \in Headers, u \in UserIds, b \in FactoryUserBodies : UpdateUser(h, u, b)
  \/ \E h \in Headers, u \in UserIds : DeleteUser(h, u)

SpecUsersRouter == InitAccounts /\ [][NextUsersRouter]_vars

OpenRoutes == {"signup", "login", "forgotPassword", "resetPassword"}

AdminRoutes == {"getAllUsers", "getUser", "updateUser", "deleteUser"}

LoggedInRoutes == {"updateMyPassword", "getMe", "updateMe", "deleteMe"} \cup AdminRoutes

(* the gate of the routes behind router.use(protect): a request without a  *)
(* token is answered 401, one with a forged or expired token invalidStatus  *)
TokenGate(invalidStatus) ==
  (res'.seq # res.seq /\ res'.route \in LoggedInRoutes) =>
    /\ ~Given(req'.header) => (res'.status = 401 /\ ~req'.ran)
    /\ (Given(req'.header) /\ ~Authentic(req'.header))
         => (res'.status = invalidStatus /\ ~req'.ran)

NextCreateUser ==
  \/ \E b \in SignupBodies : Signup(b)
  \/ \E b \in SeededLogins : Login(b)
  \/ \E h \in Headers, b \in SignupBodies : CreateUser(h, b)
  \/ \E h \in Headers : GetAllUsers(h)

SpecCreateUser == InitAccounts /\ [][NextCreateUser]_vars

RepeatedBodies == [password : {Absent}, role : {"", "guide"}, active : BOOLEAN]

NextRepeat ==
  \/ \E b \in SeededLogins : Login(b)
  \/ \E h \in Headers, u \in UserIds, b \in RepeatedBodies : UpdateUser(h, u, b)
  \/ \E h \in Headers, u \in UserIds : GetUser(h, u)

SpecRepeat == InitCatalogue /\ [][NextRepeat]_vars

(* C25: updateOne(User) applied a second time with the same identifier and *)
(* body leaves the users the first application left and answers with the   *)
(* same status                                                             *)
C25_UpdateOneIdempotent ==
  \A id \in UserIds, b \in RepeatedBodies :
    LET first == updateOneUser(users, id, b)
        second == updateOneUser(first.users, id, b)
    IN second.users = first.users /\ second.status = first.status

(* ---------------------- list endpoints ---------------------------------- *)
MaxPage == 2

QueryValues == {NotSent, Text} \cup {Digits(n) : n \in 0..MaxPage}

QueryStrings == [page : QueryValues, limit : QueryValues]

NextLists ==
  \/ \E b \in SeededLogins : Login(b)
  \/ \E h \in Headers, t \in TourIds, b \in NestedBodies({5}) : CreateReview(h, t, b)
  \/ \E h \in Headers, t \in TourIds : DeleteTour(h, t)
  \/ \E q \in QueryStrings : GetAllTours(q)
  \/ \E u \in UserIds, q \in QueryStrings : GetReviewsByUser(u, q)
  \/ \E t \in TourIds \cup {Absent} : GetAllReviews(t, NoConditions)
  \/ \E h \in Headers : GetAllUsers(h)
  \/ CalcStep

SpecLists == InitFactory /\ [][NextLists]_vars

ListRoutes == {"getAllUsers", "getAllTours", "getAllReviews", "getReviewsByUser"}

(* C26: in every answer of a list endpoint (users, tours, reviews, reviews *)
(* by user) results is the length of the array in data                     *)
C26_ResultsIsLength ==
  (res.route \in ListRoutes /\ res.status = 200) => res.results = Some(Len(res.data))

C26_PageShorterThanList ==
  /\ res.route = "getReviewsByUser" /\ res.status = 200
  /\ res.results = Some(1) /\ Len(res.data) = 1
  /\ Cardinality({r \in reviews : r.user = req.param}) = 2

NextPages ==
  \/ \E b \in SeededLogins : Login(b)
  \/ \E h \in Headers, t \in TourIds : DeleteTour(h, t)
  \/ \E q \in QueryStrings : GetAllTours(q)

SpecPages == InitFactory /\ [][NextPages]_vars

(* the page and the limit a query string asks for: the number sent, or the *)
(* default when nothing, other text or 0 was sent                          *)
Asked(value, default) ==
  IF value.sent /\ value.numeric /\ value.n >= 1 THEN value.n ELSE default

StoredTours == Ordered({t \in TourIds : tours[t].exists})

(* C28: the tours list skips (page-1)*limit tours and returns the next      *)
(* ones, at most limit of them, in stored order; page is 1 and limit is 100 *)
(* when the query string sends none, text that is no number, or 0; the      *)
(* answer is 200 for every such query string                                *)
C28_PaginationWindow ==
  [][\A q \in QueryStrings : GetAllTours(q) =>
       LET page == Asked(q.page, 1)
           limit == Asked(q.limit, 100)
           skip == (page - 1) * limit
       IN /\ res'.status = 200
          /\ Len(res'.data) <= limit
          /\ Len(res'.data) = IF Len(StoredTours) <= skip THEN 0
                              ELSE Least(Len(StoredTours) - skip, limit)
          /\ \A i \in 1..Len(res'.data) : res'.data[i] = StoredTours[skip + i]]_vars

C28_SecondPageSeen ==
  /\ res.route = "getAllTours" /\ res.status = 200
  /\ res.data = <<2>>
  /\ tours[1].exists /\ tours[2].exists

(* ---------------------------- rate limiting ---------------------------- *)
MaxRefused == 2

LimiterTicks == {Time(3599, 500), Time(0, 500)}

(* a request to a path under /api: the limiter counts it first, and the     *)
(* route handler (here the tour list) only runs when the limiter lets it by  *)
ApiRequest(ip) ==
  LET client == increment(limiter[ip], clock)
  IN /\ IF OverLimit(client)
        THEN /\ limiter' = [limiter EXCEPT ![ip] = client]
             /\ res' = [Response("rateLimit", TOO_MANY_REQUESTS)
                          EXCEPT !.thrown = "", !.operational = FALSE, !.jsend = ""]
             /\ req' = NoRequest
        ELSE /\ limiter' = [limiter EXCEPT ![ip] = [client EXCEPT !.served = @ + 1]]
             /\ res' = SendList("getAllTours", Ordered({t \in TourIds : tours[t].exists}),
                                NoQueryString)
             /\ req' = Public(Absent)
     /\ UNCHANGED <<tourVars, reviewVars, users, nextUser, issued, clock, ticks, mailbox,
                    hist, NODE_ENV>>

NextLimiter ==
  \/ \E ip \in Callers :
       /\ increment(limiter[ip], clock).totalHits <= RATE_LIMIT_MAX + MaxRefused
       /\ ApiRequest(ip)
  \/ \E d \in LimiterTicks : Tick(d)

SpecLimiter == InitFactory /\ [][NextLimiter]_vars

(* the position of the caller's next request within the caller's window *)
Ordinal(ip) ==
  IF TimeLess(clock, limiter[ip].resetTime) THEN limiter[ip].totalHits + 1 ELSE 1

(* C27: per caller IP the limiter lets at most 100 requests of one window    *)
(* through to the /api handlers: the 1st to the 100th request of a window    *)
(* are handled, the 101st and every later one of that window is answered     *)
(* 429 without reaching a handler, the first request at or after the end of  *)
(* the window (one hour after the window's first request) counts as the 1st  *)
(* of a new window, and no caller's requests count against another caller.   *)
C27_HundredPerWindow ==
  /\ [](\A ip \in Callers : limiter[ip].served <= RATE_LIMIT_MAX)
  /\ [][\A ip \in Callers :
          ApiRequest(ip) =>
            /\ IF Ordinal(ip) <= RATE_LIMIT_MAX
               THEN /\ res'.status = 200
                    /\ res'.route = "getAllTours"
                    /\ limiter'[ip].served = Ordinal(ip)
               ELSE /\ res'.status = TOO_MANY_REQUESTS
                    /\ res'.route = "rateLimit"
                    /\ limiter'[ip].served = limiter[ip].served
            /\ limiter'[ip].totalHits = Ordinal(ip)
            /\ limiter'[ip].resetTime =
                 IF Ordinal(ip) = 1 /\ TimeLeq(limiter[ip].resetTime, clock)
                 THEN AddMs(clock, RATE_LIMIT_WINDOW_MS) ELSE limiter[ip].resetTime
            /\ \A other \in Callers \ {ip} : limiter'[other] = limiter[other]]_vars

(* one caller is refused its 101st request while the other caller, in a     *)
(* window that opened after the first caller's window ended, is still served *)
C27_RefusedThenNewWindow ==
  \E ip \in Callers, other \in Callers :
    /\ res.status = TOO_MANY_REQUESTS
    /\ limiter[ip].served = RATE_LIMIT_MAX
    /\ limiter[ip].totalHits > RATE_LIMIT_MAX
    /\ limiter[other].served \in 1..(RATE_LIMIT_MAX - 1)
    /\ TimeLess(limiter[ip].resetTime, limiter[other].resetTime)

(* ---------------------- password-change stamps -------------------------- *)
FreshnessLogins == [email : UserIds, password : Passwords]

NextFreshness ==
  \/ \E b \in SignupBodies : Signup(b)
  \/ \E b \in FreshnessLogins : Login(b)
  \/ \E h \in Headers, b \in NextPasswords : UpdateMyPassword(h, b)
  \/ \E b \in EmailBodies, n \in ResetTokens, ok \in BOOLEAN : ForgotPassword(b, n, ok)
  \/ \E n \in ResetTokens, b \in RouterResets : ResetPassword(n, b)
  \/ \E h \in Headers : GetMe(h)
  \/ \E d \in SessionTicks : Tick(d)

SpecFreshness == InitAccounts /\ [][NextFreshness]_vars

OneSecondEarlier(t) == Time(t.sec - 1, t.ms)

(* the freshness check of protect accepts a token with this iat for user u *)
PassesFreshness(u, iat) ==
  ~Given(users[u].passwordChangedAt) \/ iat >= users[u].passwordChangedAt[1].sec

TargetBodies ==
  [tour : {Absent} \cup TourIds, tourId : {Absent} \cup TourIds,
   user : {Absent}, userId : {Absent} \cup UserIds, rating : {MAX_RATING}]

NestedPaths == {Absent} \cup TourIds

NextTarget ==
  \/ \E b \in CustomerLogins : Login(b)
  \/ /\ Settled
     /\ \E h \in Headers, t \in NestedPaths, b \in TargetBodies : CreateReview(h, t, b)
  \/ CalcStep

SpecTarget == InitFactory /\ [][NextTarget]_vars

(* the tour the request names: body.tour, else the nested path, else body.tourId *)
NamedTour(paramTourId, body) ==
  IF body.tour # Absent THEN body.tour
  ELSE IF paramTourId # Absent THEN paramTourId
  ELSE body.tourId

====
